---- MODULE Spec2Model ----
(***************************************************************************)
(* Balance & settlement engine of the group travel planner                 *)
(* (ExpenseSplitter component, src/services/geminiService.ts:203-664).     *)
(*                                                                         *)
(* Amounts are exact numbers on an integer grid: one currency-minor-unit   *)
(* tolerance (the literal 0.01 of the code) is EPS grid units, and EPS is  *)
(* chosen so that every equal split the model can perform is exact.        *)
(* IEEE-754 rounding of the JavaScript numbers is not modelled.            *)
(***************************************************************************)
EXTENDS Integers, Sequences, FiniteSets, TLC

(* ------------------------------ bounds -------------------------------- *)
MaxParticipants == 3
MaxExpenses == 2
MaxClock == 2
MaxInFlight == 2
MaxBalances == 4
MaxBal == 6

(* ----------------------------- arithmetic ----------------------------- *)
RECURSIVE GCD(_, _)
GCD(a, b) == IF b = 0 THEN a ELSE GCD(b, a % b)

RECURSIVE LCMUpTo(_)
LCMUpTo(n) == IF n <= 1 THEN 1 ELSE (LCMUpTo(n - 1) * n) \div GCD(LCMUpTo(n - 1), n)

\* grid units in half a tolerance; divisible by every possible sharer count
Unit == LCMUpTo(MaxParticipants)

\* the tolerance 0.01
EPS == 2 * Unit

Abs(x) == IF x < 0 THEN -x ELSE x

Min(a, b) == IF a < b THEN a ELSE b

RECURSIVE SumSeq(_)
SumSeq(s) == IF s = <<>> THEN 0 ELSE Head(s) + SumSeq(Tail(s))

(* ------------------------------- state -------------------------------- *)
VARIABLES
    participants,       \* Participant[]: sequence of [id, name]
    expenses,           \* Expense[]: sequence of [id, description, amount, currency, paidById, sharedByIds]
    baseCurrency,       \* summary currency
    conversionRates,    \* [isNull, map]: null, or a record currency -> rate
    ratesLoading,       \* boolean
    ratesError,         \* boolean: ratesError !== null
    inflight,           \* pending getConversionRates calls, oldest first: [base, targets,
                        \* superseded, afterFailure]; history: superseded = a later
                        \* call has completed, afterFailure = issued with ratesError set
    now,                \* the value Date.now() returns
    lastAction,         \* the handler or continuation that ran last (history)
    settleBalances,     \* the Balance[] a settlement is computed from
    pc,                 \* where simplifiedSettleTransactions is: "idle", "start", "loop", "done"
    simplified,         \* its locals: creditors, debtors, transactions, debtorIndex, creditorIndex
    detailed,           \* [computed, transactions]: the value of detailedSettleTransactions
    settlementView,     \* "simplified" or "detailed"
    conversion          \* one call of convertToBase: its arguments and its result

ledgerVars == <<participants, expenses, baseCurrency, conversionRates, ratesLoading,
                ratesError, inflight, now, lastAction>>

settleVars == <<settleBalances, pc, simplified, detailed, settlementView>>

vars == <<participants, expenses, baseCurrency, conversionRates, ratesLoading,
          ratesError, inflight, now, lastAction, settleBalances, pc,
          simplified, detailed, settlementView, conversion>>

SUPPORTED_CURRENCIES == {"USD", "EUR"}

\* what the rate source may answer for one currency
RateValues == {2}

\* what can be typed into the "Add new person" input: nothing, blanks, a name
\* (the handlers only test the trimmed name for emptiness)
NameInputs == {"", " ", "A"}

\* what can be typed into the amount input (parseFloat of it), in grid units
AmountInputs == {0, 6 * EPS}

\* the description input is `required`: the browser submits no empty one
DescriptionInputs == {"d"}

NullRates == [isNull |-> TRUE, map |-> <<>>]

RatesOf(m) == [isNull |-> FALSE, map |-> m]

\* { [baseCurrency]: 1 }
IdentityRates(base) == [c \in {base} |-> 1]

(* ------------------------- pure array helpers ------------------------- *)
Ids(ps) == {ps[i].id : i \in DOMAIN ps}

IdList(ps) == [i \in DOMAIN ps |-> ps[i].id]

Range(s) == {s[i] : i \in DOMAIN s}

\* String.prototype.trim on the inputs of NameInputs
Trim(s) == IF s = " " THEN "" ELSE s

\* the array without its i-th element
RemoveAt(s, i) == [j \in 1..(Len(s) - 1) |-> IF j < i THEN s[j] ELSE s[j + 1]]

\* simplifiedSettleTransactions before it has run
NoLocals == [creditors |-> <<>>, debtors |-> <<>>, transactions |-> <<>>,
             debtorIndex |-> 0, creditorIndex |-> 0]

NotComputed == [computed |-> FALSE, transactions |-> <<>>]

\* no call of convertToBase is being followed
NoConversion == [called |-> FALSE]

(* --------------------------- rate requests ---------------------------- *)
\* mutant: the base currency is not taken out of the currencies in use
TargetCurrenciesWithBase(exps, base) ==
    {exps[i].currency : i \in DOMAIN exps} \cap SUPPORTED_CURRENCIES

\* currenciesInUse.filter(c => c !== baseCurrency && c in CURRENCY_SYMBOLS)
TargetCurrencies(exps, base) ==
    {exps[i].currency : i \in DOMAIN exps} \cap (SUPPORTED_CURRENCIES \ {base})

\* { ...rates, [baseCurrency]: 1 }
WithBase(rates, base) ==
    [c \in (DOMAIN rates) \cup {base} |-> IF c = base THEN 1 ELSE rates[c]]

\* every answer the rate source can give: any currencies, any of the rate values
RateAnswers ==
    UNION {[S -> RateValues] : S \in SUBSET SUPPORTED_CURRENCIES}

\* room for the request that fetchRates would issue for (exps, base)
CanFetch(exps, base) ==
    TargetCurrencies(exps, base) = {} \/ Len(inflight) < MaxInFlight

\* the effect on [expenses, baseCurrency], up to the await
FetchRates(exps, base) ==
    LET targetCurrencies == TargetCurrencies(exps, base) IN
    IF targetCurrencies = {}
    THEN /\ conversionRates' = RatesOf(IdentityRates(base))
         /\ ratesError' = FALSE
         /\ UNCHANGED <<ratesLoading, inflight>>
    ELSE /\ ratesLoading' = TRUE
         /\ ratesError' = FALSE
         /\ inflight' = Append(inflight, [base |-> base, targets |-> targetCurrencies,
                                          superseded |-> FALSE,
                                          afterFailure |-> ratesError])
         /\ UNCHANGED conversionRates

\* the pending calls once the i-th has completed: the calls issued before it
\* have from now on been overtaken by a later one
AfterCompletion(calls, i) ==
    RemoveAt([j \in DOMAIN calls |->
                 IF j < i THEN [calls[j] EXCEPT !.superseded = TRUE] ELSE calls[j]], i)

\* getConversionRates resolved: the continuation after the await
RatesResolved(i, rates) ==
    /\ UNCHANGED <<settleVars, conversion>>
    /\ i \in DOMAIN inflight
    /\ conversionRates' = RatesOf(WithBase(rates, inflight[i].base))
    /\ ratesLoading' = FALSE
    /\ inflight' = AfterCompletion(inflight, i)
    /\ lastAction' = "ratesResolved"
    /\ UNCHANGED <<participants, expenses, baseCurrency, ratesError, now>>

\* getConversionRates threw: catch and finally
RatesRejected(i) ==
    /\ UNCHANGED <<settleVars, conversion>>
    /\ i \in DOMAIN inflight
    /\ ratesError' = TRUE
    /\ conversionRates' = NullRates
    /\ ratesLoading' = FALSE
    /\ inflight' = AfterCompletion(inflight, i)
    /\ lastAction' = "ratesRejected"
    /\ UNCHANGED <<participants, expenses, baseCurrency, now>>

(* ------------------------------ ledger -------------------------------- *)
\* mutant: the sharer list is checked for emptiness before id is taken out of it
UpdatedExpensesCheckedBefore(exps, id) ==
    LET kept == SelectSeq(exps, LAMBDA ex : ex.paidById # id /\ Len(ex.sharedByIds) > 0)
    IN [i \in DOMAIN kept |->
          [kept[i] EXCEPT !.sharedByIds = SelectSeq(@, LAMBDA pId : pId # id)]]

\* mutant: the expenses paid by id are kept
UpdatedExpensesKeepsPayer(exps, id) ==
    LET mapped == [i \in DOMAIN exps |->
                     [exps[i] EXCEPT !.sharedByIds = SelectSeq(@, LAMBDA pId : pId # id)]]
    IN SelectSeq(mapped, LAMBDA ex : Len(ex.sharedByIds) > 0)

\* expenses.map(ex => ({...ex, sharedByIds: ex.sharedByIds.filter(pId => pId !== id)}))
\*         .filter(ex => ex.paidById !== id && ex.sharedByIds.length > 0)
UpdatedExpenses(exps, id) ==
    LET mapped == [i \in DOMAIN exps |->
                     [exps[i] EXCEPT !.sharedByIds = SelectSeq(@, LAMBDA pId : pId # id)]]
    IN SelectSeq(mapped, LAMBDA ex : ex.paidById # id /\ Len(ex.sharedByIds) > 0)

\* participants.filter(p => p.id !== id)
RemainingParticipants(ps, id) == SelectSeq(ps, LAMBDA p : p.id # id)

\* [...expenses, { ...expense, id: Date.now() }]
WithExpense(exps, expense, t) ==
    Append(exps, [id |-> t, description |-> expense.description,
                  amount |-> expense.amount, currency |-> expense.currency,
                  paidById |-> expense.paidById, sharedByIds |-> expense.sharedByIds])

\* expenses.filter(ex => ex.id !== id)
WithoutExpense(exps, id) == SelectSeq(exps, LAMBDA ex : ex.id # id)

\* mutant: the sharer list is not checked
SubmitAcceptedAnySharers(f) ==
    /\ f.description # ""
    /\ f.amount > 0
    /\ f.paidById # 0

\* the check of handleSubmit; paidById is truthy unless it is 0 or undefined
SubmitAccepted(f) ==
    /\ f.description # ""
    /\ f.amount > 0
    /\ f.paidById # 0
    /\ Len(f.sharedByIds) > 0

\* the sharer lists the form can hold: all participants checked at first,
\* then any boxes unchecked (handleToggleSharedBy filters the id out)
FormSharedByIds(ps) ==
    {SelectSeq(IdList(ps), LAMBDA pId : pId \in K) : K \in SUBSET Ids(ps)}

\* what the expense form can submit while ps are the participants
Forms(ps) ==
    [description : DescriptionInputs, amount : AmountInputs,
     currency : SUPPORTED_CURRENCIES, paidById : Ids(ps),
     sharedByIds : FormSharedByIds(ps)]

AddParticipant(newParticipantName) ==
    /\ UNCHANGED <<settleVars, conversion>>
    /\ Len(participants) < MaxParticipants
    /\ participants' =
         IF Trim(newParticipantName) # ""
         THEN Append(participants, [id |-> now, name |-> Trim(newParticipantName)])
         ELSE participants
    /\ lastAction' = IF Trim(newParticipantName) # "" THEN "addParticipant" ELSE lastAction
    /\ UNCHANGED <<expenses, baseCurrency, conversionRates, ratesLoading,
                   ratesError, inflight, now>>

RemoveParticipant(id) ==
    /\ UNCHANGED <<settleVars, conversion>>
    /\ id \in Ids(participants)
    /\ CanFetch(UpdatedExpenses(expenses, id), baseCurrency)
    /\ expenses' = UpdatedExpenses(expenses, id)
    /\ participants' = RemainingParticipants(participants, id)
    /\ FetchRates(expenses', baseCurrency)
    /\ lastAction' = "removeParticipant"
    /\ UNCHANGED <<baseCurrency, now>>

\* AddExpenseModal.handleSubmit, and addExpense when the form is accepted
HandleSubmit(f) ==
    /\ UNCHANGED <<settleVars, conversion>>
    /\ Len(participants) >= 1
    /\ Len(expenses) < MaxExpenses
    /\ f \in Forms(participants)
    /\ IF SubmitAccepted(f)
       THEN /\ CanFetch(WithExpense(expenses, f, now), baseCurrency)
            /\ expenses' = WithExpense(expenses, f, now)
            /\ FetchRates(expenses', baseCurrency)
            /\ lastAction' = "submitAdded"
       ELSE /\ lastAction' = "submitIgnored"
            /\ UNCHANGED <<expenses, conversionRates, ratesLoading, ratesError, inflight>>
    /\ UNCHANGED <<participants, baseCurrency, now>>

RemoveExpense(id) ==
    /\ UNCHANGED <<settleVars, conversion>>
    /\ id \in {expenses[i].id : i \in DOMAIN expenses}
    /\ CanFetch(WithoutExpense(expenses, id), baseCurrency)
    /\ expenses' = WithoutExpense(expenses, id)
    /\ FetchRates(expenses', baseCurrency)
    /\ lastAction' = "removeExpense"
    /\ UNCHANGED <<participants, baseCurrency, now>>

SetBaseCurrency(c) ==
    /\ UNCHANGED <<settleVars, conversion>>
    /\ c \in SUPPORTED_CURRENCIES \ {baseCurrency}
    /\ CanFetch(expenses, c)
    /\ baseCurrency' = c
    /\ FetchRates(expenses, c)
    /\ lastAction' = "setBaseCurrency"
    /\ UNCHANGED <<participants, expenses, now>>

\* time passes: Date.now() never goes backwards
Tick ==
    /\ UNCHANGED <<settleVars, conversion>>
    /\ now < MaxClock
    /\ now' = now + 1
    /\ UNCHANGED <<participants, expenses, baseCurrency, conversionRates,
                   ratesLoading, ratesError, inflight, lastAction>>

(* ------------------------------ balances ------------------------------ *)
\* mutant: the rate is looked up before the currencies are compared
ConvertToBaseLookupFirst(amount, fromCurrency, base, rates) ==
    IF rates.isNull THEN [nan |-> FALSE, value |-> 0, thrown |-> TRUE]
    ELSE IF fromCurrency \notin DOMAIN rates.map
         THEN [nan |-> TRUE, value |-> 0, thrown |-> FALSE]
    ELSE [nan |-> FALSE, value |-> amount * rates.map[fromCurrency], thrown |-> FALSE]

\* mutant: a currency without a rate is converted at the rate 1
ConvertToBaseDefaultRate(amount, fromCurrency, base, rates) ==
    IF fromCurrency = base THEN [nan |-> FALSE, value |-> amount, thrown |-> FALSE]
    ELSE IF rates.isNull THEN [nan |-> FALSE, value |-> 0, thrown |-> TRUE]
    ELSE IF fromCurrency \notin DOMAIN rates.map
         THEN [nan |-> FALSE, value |-> amount, thrown |-> FALSE]
    ELSE [nan |-> FALSE, value |-> amount * rates.map[fromCurrency], thrown |-> FALSE]

\* convertToBase: [nan, value, thrown]; nan stands for the NaN the code returns;
\* thrown stands for the TypeError of indexing a null table, which the guard
\* of balances keeps from happening
ConvertToBase(amount, fromCurrency, base, rates) ==
    IF fromCurrency = base THEN [nan |-> FALSE, value |-> amount, thrown |-> FALSE]
    ELSE IF rates.isNull THEN [nan |-> FALSE, value |-> 0, thrown |-> TRUE]
    ELSE IF fromCurrency \notin DOMAIN rates.map
         THEN [nan |-> TRUE, value |-> 0, thrown |-> FALSE]
    ELSE [nan |-> FALSE, value |-> amount * rates.map[fromCurrency], thrown |-> FALSE]

\* every key balanceMap can get
MapKeys(ps, exps) ==
    Ids(ps) \cup {exps[i].paidById : i \in DOMAIN exps}
            \cup UNION {Range(exps[i].sharedByIds) : i \in DOMAIN exps}

\* expense.sharedByIds.forEach(id => balanceMap.set(id, balanceMap.get(id) - share))
RECURSIVE DebitSharers(_, _, _)
DebitSharers(map, sharedByIds, share) ==
    IF sharedByIds = <<>> THEN map
    ELSE DebitSharers([map EXCEPT ![Head(sharedByIds)] = @ - share],
                      Tail(sharedByIds), share)

\* mutant: the sharers are debited, the payer is not credited
ApplyExpenseNoCredit(map, expense, base, rates) ==
    LET convertedAmount == ConvertToBase(expense.amount, expense.currency, base, rates)
        n == Len(expense.sharedByIds)
        share == IF n = 0 THEN 0 ELSE convertedAmount.value \div n
    IN IF convertedAmount.nan THEN map
       ELSE DebitSharers(map, expense.sharedByIds, share)

\* one pass of the loop over the expenses
ApplyExpense(map, expense, base, rates) ==
    LET convertedAmount == ConvertToBase(expense.amount, expense.currency, base, rates)
        n == Len(expense.sharedByIds)
        \* a division by 0 gives Infinity, which no sharer is then debited
        share == IF n = 0 THEN 0 ELSE convertedAmount.value \div n
    IN IF convertedAmount.nan THEN map
       ELSE DebitSharers([map EXCEPT ![expense.paidById] = @ + convertedAmount.value],
                         expense.sharedByIds, share)

RECURSIVE BalanceMap(_, _, _, _)
BalanceMap(ps, exps, base, rates) ==
    IF exps = <<>> THEN [id \in MapKeys(ps, exps) |-> 0]
    ELSE LET front == SubSeq(exps, 1, Len(exps) - 1)
             before == BalanceMap(ps, front, base, rates)
             map == [id \in MapKeys(ps, exps) |->
                       IF id \in DOMAIN before THEN before[id] ELSE 0]
         IN ApplyExpense(map, exps[Len(exps)], base, rates)

\* mutant: the comparator is a.amount - b.amount
RECURSIVE SortAscending(_)
SortAscending(s) ==
    IF s = <<>> THEN <<>>
    ELSE LET sorted == SortAscending(SubSeq(s, 1, Len(s) - 1))
             x == s[Len(s)]
             k == Cardinality({i \in DOMAIN sorted : sorted[i].amount <= x.amount})
         IN SubSeq(sorted, 1, k) \o <<x>> \o SubSeq(sorted, k + 1, Len(sorted))

\* Array.prototype.sort((a, b) => b.amount - a.amount): stable, descending
RECURSIVE SortDescending(_)
SortDescending(s) ==
    IF s = <<>> THEN <<>>
    ELSE LET sorted == SortDescending(SubSeq(s, 1, Len(s) - 1))
             x == s[Len(s)]
             k == Cardinality({i \in DOMAIN sorted : sorted[i].amount >= x.amount})
         IN SubSeq(sorted, 1, k) \o <<x>> \o SubSeq(sorted, k + 1, Len(sorted))

\* mutant: the early return for a missing table or a failed fetch is left out
BalancesWithoutRatesGuard(ps, exps, base, rates, err) ==
    IF Len(ps) = 0 THEN <<>>
    ELSE LET balanceMap == BalanceMap(ps, exps, base, rates)
         IN SortDescending([i \in DOMAIN ps |->
                [participant |-> ps[i], amount |-> balanceMap[ps[i].id]]])

\* the balances memo
Balances(ps, exps, base, rates, err) ==
    IF Len(ps) = 0 \/ rates.isNull \/ err THEN <<>>
    ELSE LET balanceMap == BalanceMap(ps, exps, base, rates)
         IN SortDescending([i \in DOMAIN ps |->
                [participant |-> ps[i], amount |-> balanceMap[ps[i].id]]])

balances == Balances(participants, expenses, baseCurrency, conversionRates, ratesError)

(* ----------------------------- settlement ----------------------------- *)
\* balances.filter(b => b.amount > 0.01).map(b => ({...b}))
Creditors(bs) == SelectSeq(bs, LAMBDA b : b.amount > EPS)

\* mutant: the debtors are taken from the end of the list, largest debt first
DebtorsLargestFirst(bs) ==
    LET owing == SelectSeq(bs, LAMBDA b : b.amount < -EPS)
    IN [i \in DOMAIN owing |-> [owing[Len(owing) + 1 - i] EXCEPT !.amount = Abs(@)]]

\* balances.filter(b => b.amount < -0.01).map(b => ({...b, amount: Math.abs(b.amount)}))
Debtors(bs) ==
    LET owing == SelectSeq(bs, LAMBDA b : b.amount < -EPS)
    IN [i \in DOMAIN owing |-> [owing[i] EXCEPT !.amount = Abs(@)]]

\* the locals of simplifiedSettleTransactions when the loop is entered
SimplifiedLocals(bs) ==
    [creditors |-> Creditors(bs), debtors |-> Debtors(bs), transactions |-> <<>>,
     debtorIndex |-> 0, creditorIndex |-> 0]

\* the loop condition
LoopRunning(l) ==
    l.debtorIndex < Len(l.debtors) /\ l.creditorIndex < Len(l.creditors)

\* mutant: the debtor's remaining amount is not reduced
SimplifiedIterationNoDebit(l) ==
    LET d == l.debtorIndex + 1
        c == l.creditorIndex + 1
        debtor == l.debtors[d]
        creditor == l.creditors[c]
        amountToSettle == Min(debtor.amount, creditor.amount)
        emit == amountToSettle > EPS
        creditorAmount == IF emit THEN creditor.amount - amountToSettle ELSE creditor.amount
    IN [creditors |-> [l.creditors EXCEPT ![c].amount = creditorAmount],
        debtors |-> l.debtors,
        transactions |->
            IF emit
            THEN Append(l.transactions, [from |-> debtor.participant.name,
                                         to |-> creditor.participant.name,
                                         amount |-> amountToSettle])
            ELSE l.transactions,
        debtorIndex |-> IF debtor.amount < EPS THEN l.debtorIndex + 1 ELSE l.debtorIndex,
        creditorIndex |-> IF creditorAmount < EPS THEN l.creditorIndex + 1 ELSE l.creditorIndex]

\* mutant: a transaction is emitted for every positive amount
SimplifiedIterationEmitsAll(l) ==
    LET d == l.debtorIndex + 1
        c == l.creditorIndex + 1
        debtor == l.debtors[d]
        creditor == l.creditors[c]
        amountToSettle == Min(debtor.amount, creditor.amount)
        emit == amountToSettle > 0
        debtorAmount == IF emit THEN debtor.amount - amountToSettle ELSE debtor.amount
        creditorAmount == IF emit THEN creditor.amount - amountToSettle ELSE creditor.amount
    IN [creditors |-> [l.creditors EXCEPT ![c].amount = creditorAmount],
        debtors |-> [l.debtors EXCEPT ![d].amount = debtorAmount],
        transactions |->
            IF emit
            THEN Append(l.transactions, [from |-> debtor.participant.name,
                                         to |-> creditor.participant.name,
                                         amount |-> amountToSettle])
            ELSE l.transactions,
        debtorIndex |-> IF debtorAmount < EPS THEN l.debtorIndex + 1 ELSE l.debtorIndex,
        creditorIndex |-> IF creditorAmount < EPS THEN l.creditorIndex + 1 ELSE l.creditorIndex]

\* one iteration of the while loop (indices are 0-based as in the code)
SimplifiedIteration(l) ==
    LET d == l.debtorIndex + 1
        c == l.creditorIndex + 1
        debtor == l.debtors[d]
        creditor == l.creditors[c]
        amountToSettle == Min(debtor.amount, creditor.amount)
        emit == amountToSettle > EPS
        debtorAmount == IF emit THEN debtor.amount - amountToSettle ELSE debtor.amount
        creditorAmount == IF emit THEN creditor.amount - amountToSettle ELSE creditor.amount
    IN [creditors |-> [l.creditors EXCEPT ![c].amount = creditorAmount],
        debtors |-> [l.debtors EXCEPT ![d].amount = debtorAmount],
        transactions |->
            IF emit
            THEN Append(l.transactions, [from |-> debtor.participant.name,
                                         to |-> creditor.participant.name,
                                         amount |-> amountToSettle])
            ELSE l.transactions,
        debtorIndex |-> IF debtorAmount < EPS THEN l.debtorIndex + 1 ELSE l.debtorIndex,
        creditorIndex |-> IF creditorAmount < EPS THEN l.creditorIndex + 1 ELSE l.creditorIndex]

\* mutant: every payment is emitted, however small
RECURSIVE DetailedPaymentsUnfiltered(_, _, _, _)
DetailedPaymentsUnfiltered(debtor, creditors, c, totalCredit) ==
    IF c > Len(creditors) THEN <<>>
    ELSE <<[from |-> debtor.participant.name, to |-> creditors[c].participant.name,
            amount |-> [num |-> debtor.amount * creditors[c].amount,
                        den |-> totalCredit]]>>
         \o DetailedPaymentsUnfiltered(debtor, creditors, c + 1, totalCredit)

\* the payments of one debtor in detailedSettleTransactions: the amount
\* debtor.amount * (creditor.amount / totalCredit) is kept as num / den
RECURSIVE DetailedPayments(_, _, _, _)
DetailedPayments(debtor, creditors, c, totalCredit) ==
    IF c > Len(creditors) THEN <<>>
    ELSE LET creditor == creditors[c]
             num == debtor.amount * creditor.amount
             rest == DetailedPayments(debtor, creditors, c + 1, totalCredit)
         IN IF num > EPS * totalCredit    \* paymentAmount > 0.01
            THEN <<[from |-> debtor.participant.name, to |-> creditor.participant.name,
                    amount |-> [num |-> num, den |-> totalCredit]]>> \o rest
            ELSE rest

RECURSIVE DetailedLoop(_, _, _, _)
DetailedLoop(debtors, d, creditors, totalCredit) ==
    IF d > Len(debtors) THEN <<>>
    ELSE DetailedPayments(debtors[d], creditors, 1, totalCredit)
         \o DetailedLoop(debtors, d + 1, creditors, totalCredit)

DetailedSettleTransactions(bs) ==
    LET creditors == SelectSeq(bs, LAMBDA b : b.amount > EPS)
        debtors == Debtors(bs)
        totalCredit == SumSeq([i \in DOMAIN creditors |-> creditors[i].amount])
    IN IF Len(creditors) = 0 \/ Len(debtors) = 0 THEN <<>>
       ELSE IF totalCredit < EPS THEN <<>>
       ELSE DetailedLoop(debtors, 1, creditors, totalCredit)

\* the while loop run from the locals l for at most fuel iterations
RECURSIVE SimplifiedRun(_, _)
SimplifiedRun(l, fuel) ==
    IF ~LoopRunning(l) \/ fuel = 0 THEN l
    ELSE SimplifiedRun(SimplifiedIteration(l), fuel - 1)

\* simplifiedSettleTransactions as a value: an iteration that moves no cursor
\* repeats for ever, so a run that returns has returned after one iteration
\* per creditor and debtor; returned = FALSE is the call that never returns
SimplifiedSettleTransactions(bs) ==
    LET l == SimplifiedLocals(bs)
        end == SimplifiedRun(l, Len(l.creditors) + Len(l.debtors))
    IN [returned |-> ~LoopRunning(end), transactions |-> end.transactions]

\* the text shown next to a participant's balance
BalanceLabel(amount) ==
    IF Abs(amount) < EPS THEN "Is settled"
    ELSE IF amount > 0 THEN "Gets back" ELSE "Owes"

\* the balance list is rendered: participants.length > 0 && !ratesError
BalancesShown(ps, err) == Len(ps) > 0 /\ ~err

\* mutant: the message does not look at ratesError
EmptySettlementMessageIgnoringError(ps, exps, err) ==
    IF Len(ps) > 1 /\ Len(exps) > 0
    THEN "Everyone is settled up!"
    ELSE "Add some expenses to see who owes whom."

\* the text shown in place of an empty transaction list
EmptySettlementMessage(ps, exps, err) ==
    IF Len(ps) > 1 /\ Len(exps) > 0 /\ ~err
    THEN "Everyone is settled up!"
    ELSE "Add some expenses to see who owes whom."

\* simplifiedSettleTransactions is entered: the two partitions are built
SimplifiedStart ==
    /\ pc = "start"
    /\ simplified' = SimplifiedLocals(settleBalances)
    /\ pc' = IF LoopRunning(simplified') THEN "loop" ELSE "done"
    /\ UNCHANGED <<settleBalances, detailed, settlementView>>
    /\ UNCHANGED <<ledgerVars, conversion>>

\* mutant: creditors is balances.filter(...) without the copy, as in
\* detailedSettleTransactions: its entries are the Balance objects (the first
\* of the sorted list), and creditor.amount -= ... writes into them
BalancesAfterIterationAliased(bs, l) ==
    [i \in DOMAIN bs |->
        IF i <= Len(l.creditors) THEN [bs[i] EXCEPT !.amount = l.creditors[i].amount]
        ELSE bs[i]]

\* the Balance list after an iteration that left the locals l: creditors and
\* debtors are made of copies ({...b}), so the subtractions do not reach it
BalancesAfterIteration(bs, l) == bs

\* one iteration; the loop is left when a cursor runs off its list
SimplifiedStep ==
    /\ pc = "loop"
    /\ simplified' = SimplifiedIteration(simplified)
    /\ pc' = IF LoopRunning(simplified') THEN "loop" ELSE "done"
    /\ settleBalances' = BalancesAfterIteration(settleBalances, simplified')
    /\ UNCHANGED <<detailed, settlementView>>
    /\ UNCHANGED <<ledgerVars, conversion>>

\* detailedSettleTransactions is evaluated
DetailedSettle ==
    /\ pc # "idle"
    /\ ~detailed.computed
    /\ detailed' = [computed |-> TRUE,
                    transactions |-> DetailedSettleTransactions(settleBalances)]
    /\ UNCHANGED <<settleBalances, pc, simplified, settlementView>>
    /\ UNCHANGED <<ledgerVars, conversion>>

\* a click on one of the two view buttons
SetSettlementView(v) ==
    /\ v \in {"simplified", "detailed"}
    /\ settlementView' = v
    /\ UNCHANGED <<settleBalances, pc, simplified, detailed>>
    /\ UNCHANGED <<ledgerVars, conversion>>

\* the list that is rendered
transactionsToDisplay ==
    IF settlementView = "simplified" THEN simplified.transactions
    ELSE detailed.transactions

\* the Balance lists a settlement is run on: up to MaxBalances participants with
\* distinct names, amounts in steps of half the tolerance, ordered as balances
\* orders them
SettleParticipant(i) == [id |-> i, name |-> ToString(i)]

SettleAmounts == {k * Unit : k \in (-MaxBal)..MaxBal}

BalanceLists ==
    UNION {{[i \in 1..n |-> [participant |-> SettleParticipant(i), amount |-> a[i]]] :
              a \in {x \in [1..n -> SettleAmounts] :
                       \A i \in 1..(n - 1) : x[i] >= x[i + 1]}} :
           n \in 0..MaxBalances}

Init ==
    /\ participants = <<>>
    /\ expenses = <<>>
    /\ baseCurrency = "USD"
    /\ conversionRates = RatesOf(IdentityRates("USD"))
    /\ ratesLoading = FALSE
    /\ ratesError = FALSE
    /\ inflight = <<>>
    /\ now = 1
    /\ lastAction = "mount"
    /\ settleBalances = <<>>
    /\ pc = "idle"
    /\ simplified = NoLocals
    /\ detailed = NotComputed
    /\ settlementView = "simplified"
    /\ conversion = NoConversion

Next ==
    \/ \E n \in NameInputs : AddParticipant(n)
    \/ \E id \in Ids(participants) : RemoveParticipant(id)
    \/ \E f \in Forms(participants) : HandleSubmit(f)
    \/ \E id \in {expenses[i].id : i \in DOMAIN expenses} : RemoveExpense(id)
    \/ \E c \in SUPPORTED_CURRENCIES : SetBaseCurrency(c)
    \/ \E i \in DOMAIN inflight, rates \in RateAnswers : RatesResolved(i, rates)
    \/ \E i \in DOMAIN inflight : RatesRejected(i)
    \/ Tick

Spec == Init /\ [][Next]_vars

InitSettle ==
    /\ participants = <<>>
    /\ expenses = <<>>
    /\ baseCurrency = "USD"
    /\ conversionRates = RatesOf(IdentityRates("USD"))
    /\ ratesLoading = FALSE
    /\ ratesError = FALSE
    /\ inflight = <<>>
    /\ now = 1
    /\ lastAction = "mount"
    /\ settleBalances \in BalanceLists
    /\ pc = "start"
    /\ simplified = NoLocals
    /\ detailed = NotComputed
    /\ settlementView = "simplified"
    /\ conversion = NoConversion

NextSettle ==
    \/ SimplifiedStart
    \/ SimplifiedStep
    \/ DetailedSettle
    \/ \E v \in {"simplified", "detailed"} : SetSettlementView(v)

SpecSettle == InitSettle /\ [][NextSettle]_vars

(* ------------------ first render of a persisted ledger ----------------- *)
\* the participants found in localStorage: the first of A, B, C with ids 1, 2, 3
LoadedNames == <<"A", "B", "C">>

LoadedParticipants ==
    {[i \in 1..n |-> [id |-> i, name |-> LoadedNames[i]]] : n \in 0..MaxParticipants}

\* an id that no loaded participant has
DanglingId == MaxParticipants + 1

\* the ids an expense in localStorage may name
LoadedIds == 1..DanglingId

\* the amount 90.00 in grid units
LoadedAmounts == {9000 * EPS}

\* the ids of the set S in ascending order
RECURSIVE AscendingList(_)
AscendingList(S) ==
    IF S = {} THEN <<>>
    ELSE LET m == CHOOSE x \in S : \A y \in S : x <= y
         IN <<m>> \o AscendingList(S \ {m})

\* the expenses found in localStorage: up to MaxExpenses of them, numbered
\* from 1, the payer and the sharers live or not
LoadedExpenseBodies ==
    [amount : LoadedAmounts, currency : SUPPORTED_CURRENCIES, paidById : LoadedIds,
     sharedByIds : {AscendingList(S) : S \in (SUBSET LoadedIds) \ {{}}}]

LoadedExpenses ==
    UNION {{[i \in 1..n |-> [id |-> i, description |-> "d", amount |-> b[i].amount,
                              currency |-> b[i].currency, paidById |-> b[i].paidById,
                              sharedByIds |-> b[i].sharedByIds]] :
              b \in [1..n -> LoadedExpenseBodies]} : n \in 0..MaxExpenses}

\* the state after construction when localStorage holds a ledger
InitLoad ==
    /\ participants \in LoadedParticipants
    /\ expenses \in LoadedExpenses
    /\ baseCurrency = "USD"
    /\ conversionRates = RatesOf(IdentityRates("USD"))
    /\ ratesLoading = FALSE
    /\ ratesError = FALSE
    /\ inflight = <<>>
    /\ now = 1
    /\ lastAction = "mount"
    /\ settleBalances = <<>>
    /\ pc = "idle"
    /\ simplified = NoLocals
    /\ detailed = NotComputed
    /\ settlementView = "simplified"
    /\ conversion = NoConversion

\* the balances memo is evaluated and handed to simplifiedSettleTransactions,
\* the memo behind the settlement view shown first
Render ==
    /\ pc = "idle"
    /\ settleBalances' = balances
    /\ pc' = "start"
    /\ UNCHANGED <<simplified, detailed, settlementView>>
    /\ UNCHANGED <<ledgerVars, conversion>>

NextLoad ==
    \/ Render
    \/ SimplifiedStart
    \/ SimplifiedStep

SpecLoad == InitLoad /\ [][NextLoad]_vars

(* ------------------- convertToBase on its own inputs ------------------- *)
\* the amounts convertToBase is called with
ConvertAmounts == {k * EPS : k \in 0..MaxBal}

\* the values conversionRates takes: null (absent, or after a failed fetch),
\* or the answer to a request made for some base currency
RateTables ==
    {NullRates} \cup {RatesOf(WithBase(r, b)) : r \in RateAnswers, b \in SUPPORTED_CURRENCIES}

InitConvert ==
    /\ participants = <<>>
    /\ expenses = <<>>
    /\ baseCurrency \in SUPPORTED_CURRENCIES
    /\ conversionRates \in RateTables
    /\ ratesLoading = FALSE
    /\ ratesError \in {e \in BOOLEAN : e => conversionRates.isNull}
    /\ inflight = <<>>
    /\ now = 1
    /\ lastAction = "mount"
    /\ settleBalances = <<>>
    /\ pc = "idle"
    /\ simplified = NoLocals
    /\ detailed = NotComputed
    /\ settlementView = "simplified"
    /\ \E amount \in ConvertAmounts, fromCurrency \in SUPPORTED_CURRENCIES :
          conversion = [called |-> FALSE, amount |-> amount, fromCurrency |-> fromCurrency]

\* convertToBase(amount, fromCurrency) under the current base currency and table
Convert ==
    /\ ~conversion.called
    /\ conversion' = [called |-> TRUE, amount |-> conversion.amount,
                      fromCurrency |-> conversion.fromCurrency,
                      result |-> ConvertToBase(conversion.amount, conversion.fromCurrency,
                                               baseCurrency, conversionRates)]
    /\ UNCHANGED <<ledgerVars, settleVars>>

NextConvert == Convert

SpecConvert == InitConvert /\ [][NextConvert]_vars

(* ====================================================================== *)
(* Properties                                                             *)
(* ====================================================================== *)

\* x and y differ by no more than the tolerance
WithinEps(x, y) == Abs(x - y) <= EPS

\* the rank of index i in the index set K
Rank(K, i) == Cardinality({j \in K : j <= i})

\* sub is s restricted to the indices K, in the order of s
IsRestriction(sub, s, K) ==
    /\ Len(sub) = Cardinality(K)
    /\ \A i \in K : sub[Rank(K, i)] = s[i]

\* the rate table is there, without error, with a rate for every currency in use
RatesFullyAvailable ==
    /\ ~conversionRates.isNull
    /\ ~ratesError
    /\ \A i \in DOMAIN expenses :
         expenses[i].currency \in (DOMAIN conversionRates.map) \cup {baseCurrency}

\* C1: with a fully available rate table the amounts of all Balances sum to 0
\* (within the tolerance) in every state of the ledger.
C1_ZeroSum ==
    RatesFullyAvailable =>
        WithinEps(SumSeq([i \in DOMAIN balances |-> balances[i].amount]), 0)

\* the same sum while the participant ids are distinct: the zero sum is lost
\* only through participants that share an id
ZeroSumUnderUniqueIds ==
    (\A i, j \in DOMAIN participants : i # j => participants[i].id # participants[j].id)
        => C1_ZeroSum

\* the simplified transactions paid to / by the participant called name
SumInto(txs, name) ==
    SumSeq([i \in DOMAIN txs |-> IF txs[i].to = name THEN txs[i].amount ELSE 0])

SumOutOf(txs, name) ==
    SumSeq([i \in DOMAIN txs |-> IF txs[i].from = name THEN txs[i].amount ELSE 0])

BalancesSumToZero ==
    SumSeq([i \in DOMAIN settleBalances |-> settleBalances[i].amount]) = 0

\* C2: when the balances sum to 0 and the simplified settlement has returned,
\* every creditor receives its balance and every debtor pays what it owes
\* (within the tolerance).
C2_SimplifiedConservation ==
    (pc = "done" /\ BalancesSumToZero) =>
        \A i \in DOMAIN settleBalances :
            LET b == settleBalances[i] IN
            /\ b.amount > EPS =>
                 WithinEps(SumInto(simplified.transactions, b.participant.name), b.amount)
            /\ b.amount < -EPS =>
                 WithinEps(SumOutOf(simplified.transactions, b.participant.name), -b.amount)

\* the numerators of the detailed transactions paid to / by name (they share
\* the denominator totalCredit)
NumInto(txs, name) ==
    SumSeq([i \in DOMAIN txs |-> IF txs[i].to = name THEN txs[i].amount.num ELSE 0])

NumOutOf(txs, name) ==
    SumSeq([i \in DOMAIN txs |-> IF txs[i].from = name THEN txs[i].amount.num ELSE 0])

TotalCredit ==
    SumSeq([i \in DOMAIN settleBalances |->
              IF settleBalances[i].amount > EPS THEN settleBalances[i].amount ELSE 0])

\* C3: when the balances sum to 0, the detailed settlement pays every creditor
\* its balance and takes from every debtor what it owes (within the tolerance).
C3_DetailedConservation ==
    (detailed.computed /\ BalancesSumToZero) =>
        \A i \in DOMAIN settleBalances :
            LET b == settleBalances[i] IN
            /\ b.amount > EPS =>
                 Abs(NumInto(detailed.transactions, b.participant.name)
                     - b.amount * TotalCredit) <= EPS * TotalCredit
            /\ b.amount < -EPS =>
                 Abs(NumOutOf(detailed.transactions, b.participant.name)
                     + b.amount * TotalCredit) <= EPS * TotalCredit

\* C4: every iteration of the two-cursor loop emits a transaction or advances
\* a cursor, so no loop state is repeated.
C4_IterationProgress ==
    pc = "loop" =>
        LET after == SimplifiedIteration(simplified) IN
        \/ Len(after.transactions) > Len(simplified.transactions)
        \/ after.debtorIndex > simplified.debtorIndex
        \/ after.creditorIndex > simplified.creditorIndex

NumCreditors == Cardinality({i \in DOMAIN settleBalances : settleBalances[i].amount > EPS})

NumDebtors == Cardinality({i \in DOMAIN settleBalances : settleBalances[i].amount < -EPS})

\* C5: the simplified settlement never holds more than |creditors| + |debtors| - 1
\* transactions, and none when there is no creditor or no debtor.
C5_TransactionBound ==
    pc \in {"loop", "done"} =>
        IF NumCreditors >= 1 /\ NumDebtors >= 1
        THEN Len(simplified.transactions) <= NumCreditors + NumDebtors - 1
        ELSE Len(simplified.transactions) = 0

\* the bound is reached with two creditors and two debtors
C5_Witness ==
    /\ pc = "done"
    /\ NumCreditors = 2
    /\ NumDebtors = 2
    /\ Len(simplified.transactions) = 3

\* what removeParticipant(id) has to leave behind
RemoveParticipantPost(id) ==
    LET keptP == {i \in DOMAIN participants : participants[i].id # id}
        keptE == {i \in DOMAIN expenses :
                    /\ expenses[i].paidById # id
                    /\ \E j \in DOMAIN expenses[i].sharedByIds :
                           expenses[i].sharedByIds[j] # id}
    IN /\ IsRestriction(participants', participants, keptP)
       /\ Len(expenses') = Cardinality(keptE)
       /\ \A i \in keptE :
            LET old == expenses[i]
                new == expenses'[Rank(keptE, i)]
            IN /\ new.id = old.id
               /\ new.description = old.description
               /\ new.amount = old.amount
               /\ new.currency = old.currency
               /\ new.paidById = old.paidById
               /\ IsRestriction(new.sharedByIds, old.sharedByIds,
                                {j \in DOMAIN old.sharedByIds : old.sharedByIds[j] # id})

\* C6: removeParticipant(id) removes the participant, removes id from every
\* sharer list, deletes the expenses paid by id and those left without a
\* sharer, and keeps every other expense as it was, in order.
C6_RemoveParticipant ==
    [][lastAction' = "removeParticipant" =>
          \A id \in Ids(participants) :
              RemoveParticipant(id) => RemoveParticipantPost(id)]_vars

\* a removal that left an expense with fewer sharers than the form had given it
C6_Witness ==
    /\ lastAction = "removeParticipant"
    /\ Len(participants) = 2
    /\ \E i \in DOMAIN expenses : Len(expenses[i].sharedByIds) = 1

\* C7: every expense of the ledger has a positive amount, a sharer, a payer
\* that is a participant and only participants as sharers.
C7_ReferentialIntegrity ==
    \A i \in DOMAIN expenses :
        /\ expenses[i].amount > 0
        /\ Len(expenses[i].sharedByIds) > 0
        /\ expenses[i].paidById \in Ids(participants)
        /\ Range(expenses[i].sharedByIds) \subseteq Ids(participants)

\* an expense that has survived the removal of a participant
C7_Witness ==
    /\ lastAction = "removeParticipant"
    /\ Len(expenses) = 2
    /\ Len(participants) >= 1

\* the inputs addExpense has to refuse
InvalidExpense(f) ==
    \/ f.amount <= 0
    \/ Len(f.sharedByIds) = 0
    \/ f.paidById \notin Ids(participants)
    \/ ~(Range(f.sharedByIds) \subseteq Ids(participants))

C9_UniqueParticipantIds ==
    \A i, j \in DOMAIN participants :
        i # j => participants[i].id # participants[j].id

\* C10: no two expenses of the ledger have the same id.
C10_UniqueExpenseIds ==
    \A i, j \in DOMAIN expenses :
        i # j => expenses[i].id # expenses[j].id

\* what removeExpense(id) has to leave behind
RemoveExpensePost(id) ==
    LET hits == {i \in DOMAIN expenses : expenses[i].id = id} IN
    /\ participants' = participants
    /\ hits = {} => expenses' = expenses
    /\ hits # {} =>
         \E k \in hits :
            /\ Len(expenses') = Len(expenses) - 1
            /\ \A i \in DOMAIN expenses' :
                 expenses'[i] = IF i < k THEN expenses[i] ELSE expenses[i + 1]

\* C11: removeExpense(id) deletes exactly the one expense with that id (none
\* when there is none) and leaves the participants and the other expenses,
\* in their order, as they were.
C11_RemoveExpense ==
    [][lastAction' = "removeExpense" =>
          \A id \in {expenses[i].id : i \in DOMAIN expenses} :
              RemoveExpense(id) => RemoveExpensePost(id)]_vars

\* the same while the expense ids are distinct: more than one expense is
\* deleted only when expenses share an id
RemoveExpenseUnderUniqueIds ==
    [][(lastAction' = "removeExpense" /\ C10_UniqueExpenseIds) =>
          \A id \in {expenses[i].id : i \in DOMAIN expenses} :
              RemoveExpense(id) => RemoveExpensePost(id)]_vars

\* C12: converting an amount whose currency is the base currency gives the
\* amount itself, neither NaN nor an error, whatever the rate table is:
\* available, absent or left null by a failed fetch.
C12_IdentityConversion ==
    (conversion.called /\ conversion.fromCurrency = baseCurrency) =>
        conversion.result = [nan |-> FALSE, value |-> conversion.amount, thrown |-> FALSE]

\* an identity conversion made while the table is null after a failed fetch
C12_Witness ==
    /\ conversion.called
    /\ conversion.fromCurrency = baseCurrency
    /\ conversion.amount > 0
    /\ conversionRates.isNull
    /\ ratesError

\* an identity conversion made under a table that has no entry for the base
C12_WitnessStaleTable ==
    /\ conversion.called
    /\ conversion.fromCurrency = baseCurrency
    /\ conversion.amount > 0
    /\ ~conversionRates.isNull
    /\ baseCurrency \notin DOMAIN conversionRates.map

\* the expense needs no conversion, or the table has a rate for its currency
Convertible(e) ==
    \/ e.currency = baseCurrency
    \/ ~conversionRates.isNull /\ e.currency \in DOMAIN conversionRates.map

\* the amount of e in the base currency, for a convertible e
InBase(e) ==
    IF e.currency = baseCurrency THEN e.amount
    ELSE e.amount * conversionRates.map[e.currency]

\* what the convertible expenses leave participant id with: what it paid
\* minus its shares
NetOfConvertible(id) ==
    SumSeq([i \in DOMAIN expenses |->
        LET e == expenses[i]
            n == Len(e.sharedByIds)
            shares == Cardinality({k \in DOMAIN e.sharedByIds : e.sharedByIds[k] = id})
        IN IF ~Convertible(e) THEN 0
           ELSE (IF e.paidById = id THEN InBase(e) ELSE 0)
                - (IF n = 0 THEN 0 ELSE shares * (InBase(e) \div n))])

\* every participant has its Balance, and it is the net of the convertible expenses
ConvertibleExpensesApplied ==
    /\ Len(balances) = Len(participants)
    /\ \A i \in DOMAIN balances :
         balances[i].amount = NetOfConvertible(balances[i].participant.id)

\* C13 as stated: after a failed fetch the expenses that need no conversion
\* are still applied to the Balances.
C13_AppliedAfterFailedFetch ==
    (ratesError /\ participants # <<>>) => ConvertibleExpensesApplied

\* C13: after a failed fetch no expense is applied and no Balance is produced;
\* while a table is available every convertible expense is applied and only
\* the expenses whose conversion fails are skipped.
C13_AppliedWhileAvailable ==
    /\ ratesError => balances = <<>>
    /\ (~ratesError /\ ~conversionRates.isNull /\ participants # <<>>)
          => ConvertibleExpensesApplied

\* a failed fetch with an expense in the base currency in the ledger
C13_Witness ==
    /\ ratesError
    /\ participants # <<>>
    /\ \E i \in DOMAIN expenses :
          /\ expenses[i].currency = baseCurrency
          /\ expenses[i].sharedByIds # <<expenses[i].paidById>>

\* an available table under which one expense is applied and one is skipped
C13_WitnessPartial ==
    /\ ~ratesError /\ ~conversionRates.isNull
    /\ \E i, j \in DOMAIN expenses :
          /\ ~Convertible(expenses[i])
          /\ Convertible(expenses[j])
          /\ expenses[j].sharedByIds # <<expenses[j].paidById>>

\* C14: after a failed fetch the result is "unavailable", not "settled": the
\* Balance list is empty and not rendered, both settlement policies return no
\* transaction, and the message shown is not the one for a settled group.
C14_UnavailableOnError ==
    ratesError =>
        /\ balances = <<>>
        /\ ~BalancesShown(participants, ratesError)
        /\ SimplifiedSettleTransactions(balances) = [returned |-> TRUE, transactions |-> <<>>]
        /\ DetailedSettleTransactions(balances) = <<>>
        /\ EmptySettlementMessage(participants, expenses, ratesError)
             # "Everyone is settled up!"

\* a failed fetch in a ledger where somebody owes somebody
C14_Witness ==
    /\ ratesError
    /\ Len(participants) > 1
    /\ \E i \in DOMAIN expenses :
          /\ expenses[i].currency = baseCurrency
          /\ expenses[i].amount > 0
          /\ \E k \in DOMAIN expenses[i].sharedByIds :
                expenses[i].sharedByIds[k] # expenses[i].paidById

\* the ledger without the expenses the table has no rate for
ConvertibleExpenses == SelectSeq(expenses, Convertible)

\* C15: under an available table an expense in a currency without a rate is
\* skipped as a whole: the Balances are those of the ledger without it.
C15_MissingRateSkipped ==
    (~conversionRates.isNull /\ ~ratesError) =>
        balances = Balances(participants, ConvertibleExpenses, baseCurrency,
                            conversionRates, ratesError)

\* an available table that lacks the rate of an expense somebody owes a share
\* of, next to an expense that is converted
C15_Witness ==
    /\ ~conversionRates.isNull /\ ~ratesError
    /\ \E i, j \in DOMAIN expenses :
          /\ ~Convertible(expenses[i])
          /\ expenses[i].amount > 0
          /\ expenses[i].sharedByIds # <<expenses[i].paidById>>
          /\ expenses[i].paidById \in Ids(participants)
          /\ Convertible(expenses[j])
          /\ \E k \in DOMAIN balances : balances[k].amount # 0

\* the participant's id is the payer or a sharer of some expense
InSomeExpense(id) ==
    \E i \in DOMAIN expenses :
        expenses[i].paidById = id \/ id \in Range(expenses[i].sharedByIds)

\* the number of entries of the sequence s that equal x
Occurrences(s, x) == Cardinality({i \in DOMAIN s : s[i] = x})

\* the balances are available: there are participants, a table and no error
BalancesAvailable ==
    Len(participants) > 0 /\ ~conversionRates.isNull /\ ~ratesError

\* C16: available balances hold exactly one Balance per current participant,
\* amount 0 for a participant that is in no expense, ordered by amount
\* descending.
C16_BalanceList ==
    BalancesAvailable =>
        /\ Len(balances) = Len(participants)
        /\ \A i \in DOMAIN participants :
             Occurrences([k \in DOMAIN balances |-> balances[k].participant],
                         participants[i])
               = Occurrences(participants, participants[i])
        /\ \A k \in DOMAIN balances :
             ~InSomeExpense(balances[k].participant.id) => balances[k].amount = 0
        /\ \A k \in 1..(Len(balances) - 1) :
             balances[k].amount >= balances[k + 1].amount

\* three participants in an expense, listed from the creditor to the debtor
C16_Witness ==
    /\ BalancesAvailable
    /\ Len(balances) = 3
    /\ balances[1].amount > 0
    /\ balances[3].amount < 0
    /\ participants[1] # balances[1].participant

\* a participant that is in no expense, next to one that is
C16_WitnessNoExpense ==
    /\ BalancesAvailable
    /\ \E k, m \in DOMAIN balances :
          /\ ~InSomeExpense(balances[k].participant.id)
          /\ InSomeExpense(balances[m].participant.id)

\* the ledger of the worked example: A, B, C and 90 paid by A for all three
WorkedExample ==
    /\ participants = <<[id |-> 1, name |-> "A"], [id |-> 2, name |-> "B"],
                        [id |-> 3, name |-> "C"]>>
    /\ expenses = <<[id |-> 1, description |-> "d", amount |-> 9000 * EPS,
                     currency |-> baseCurrency, paidById |-> 1,
                     sharedByIds |-> <<1, 2, 3>>]>>

\* C17: for the worked example the balances are A = +60, B = -30, C = -30 and
\* the simplified settlement is B to A 30 and C to A 30, nothing else.
C17_WorkedExample ==
    (WorkedExample /\ pc = "done") =>
        /\ settleBalances =
             <<[participant |-> participants[1], amount |-> 6000 * EPS],
               [participant |-> participants[2], amount |-> -(3000 * EPS)],
               [participant |-> participants[3], amount |-> -(3000 * EPS)]>>
        /\ simplified.transactions =
             <<[from |-> "B", to |-> "A", amount |-> 3000 * EPS],
               [from |-> "C", to |-> "A", amount |-> 3000 * EPS]>>

\* the worked example has been rendered and simplifiedSettleTransactions has returned
C17_Witness == WorkedExample /\ pc = "done" /\ Len(simplified.transactions) = 2

\* the payer or a sharer of e is no participant
Dangling(e) ==
    \/ e.paidById \notin Ids(participants)
    \/ \E k \in DOMAIN e.sharedByIds : e.sharedByIds[k] \notin Ids(participants)

\* the ledger without the expenses that name somebody who is no participant
ValidExpenses == SelectSeq(expenses, LAMBDA e : ~Dangling(e))

\* C19: an expense whose payer or sharer is no participant changes no
\* Balance: the Balances of a loaded ledger are those of its other expenses,
\* and they sum to 0.
C19_DanglingTolerated ==
    (pc # "idle" /\ ~conversionRates.isNull /\ ~ratesError) =>
        /\ settleBalances = Balances(participants, ValidExpenses, baseCurrency,
                                     conversionRates, ratesError)
        /\ SumSeq([i \in DOMAIN settleBalances |-> settleBalances[i].amount]) = 0

\* the same for the loaded ledgers without a dangling reference
NoDanglingZeroSum ==
    (\A i \in DOMAIN expenses : ~Dangling(expenses[i])) => C19_DanglingTolerated

\* C20: a rate request issued after a change of the expenses or of the base
\* currency is made for the new base currency and asks for the currencies of
\* the new expenses other than that base currency, and for nothing else.
C20_RequestTargets ==
    [][Len(inflight') > Len(inflight) =>
          LET request == inflight'[Len(inflight')] IN
          /\ request.base = baseCurrency'
          /\ request.targets =
               {expenses'[i].currency : i \in DOMAIN expenses'} \ {baseCurrency'}
          /\ baseCurrency' \notin request.targets]_vars

\* a request pending after the base currency was changed to a currency that
\* an expense uses, next to an expense in another one
C20_Witness ==
    /\ lastAction = "setBaseCurrency"
    /\ Len(inflight) = 1
    /\ inflight[1].base = baseCurrency
    /\ \E i, j \in DOMAIN expenses :
          /\ expenses[i].currency = baseCurrency
          /\ expenses[j].currency # baseCurrency

\* no expense is in a currency other than the base currency
NoConversionNeeded ==
    \A i \in DOMAIN expenses : expenses[i].currency = baseCurrency

\* the table is there, gives the base currency the rate 1, and no error is set
TableForBase ==
    /\ ~conversionRates.isNull
    /\ baseCurrency \in DOMAIN conversionRates.map
    /\ conversionRates.map[baseCurrency] = 1
    /\ ~ratesError

\* C21: while no expense needs a conversion no rate request is issued, and
\* once the earlier requests have completed the table is available with the
\* base currency at 1, no error is set and the balances are computed.
C21_NoConversionNeeded ==
    (NoConversionNeeded /\ inflight = <<>>) =>
        /\ TableForBase
        /\ Len(balances) = Len(participants)

\* the part about requests: a step into a ledger that needs no conversion
\* issues none
NoRequestWithoutTargets ==
    [][NoConversionNeeded' => Len(inflight') <= Len(inflight)]_vars

\* what the effect itself does: a change of the expenses or of the base
\* currency that leaves no conversion to make installs the table at once; it
\* is lost only to a request that completes afterwards
EffectInstallsTable ==
    [][(lastAction' \in {"submitAdded", "removeExpense", "removeParticipant",
                         "setBaseCurrency"} /\ NoConversionNeeded')
          => TableForBase']_vars

C23_TableOfCurrentBase ==
    ~conversionRates.isNull =>
        /\ baseCurrency \in DOMAIN conversionRates.map
        /\ conversionRates.map[baseCurrency] = 1

\* the same restricted to the states with nothing pending; it fails as well,
\* when the answer to a request made for the previous base arrives last
TableOfCurrentBaseWhenIdle ==
    inflight = <<>> => C23_TableOfCurrentBase

\* the step is the completion, with success or failure, of the i-th pending call
Completes(i) ==
    \/ RatesRejected(i)
    \/ \E rates \in RateAnswers : RatesResolved(i, rates)

\* C24: last request wins: the completion of a request that a later request
\* has already overtaken changes neither the rate table nor the error state.
C24_LastRequestWins ==
    [][lastAction' \in {"ratesResolved", "ratesRejected"} =>
          \A i \in DOMAIN inflight :
              (inflight[i].superseded /\ Completes(i)) =>
                  (conversionRates' = conversionRates /\ ratesError' = ratesError)]_vars

\* what does hold: a completion installs its own result for its own base
CompletionInstallsOwnResult ==
    [][lastAction' \in {"ratesResolved", "ratesRejected"} =>
          \A i \in DOMAIN inflight :
              /\ RatesRejected(i) => (conversionRates'.isNull /\ ratesError')
              /\ \A rates \in RateAnswers : RatesResolved(i, rates) =>
                    /\ ~conversionRates'.isNull
                    /\ conversionRates'.map[inflight[i].base] = 1
                    /\ ratesError' = ratesError]_vars

\* C25: ratesLoading is true in every state with a rate request in flight
\* (the table keeps its value while the request is pending, and the flag
\* falls once the requests have completed).
C25_LoadingWhileInFlight ==
    inflight # <<>> => ratesLoading

\* the second part: issuing a request leaves the table as it was
TableKeptWhileIssuing ==
    [][Len(inflight') > Len(inflight) => conversionRates' = conversionRates]_vars

\* what the flag does: it is raised when a request is issued and falls at a
\* completion only, at the first one even when other requests are pending
LoadingRaisedAndCleared ==
    [][/\ Len(inflight') > Len(inflight) => ratesLoading'
       /\ (ratesLoading /\ ~ratesLoading')
            => lastAction' \in {"ratesResolved", "ratesRejected"}]_vars

\* every pending call of getConversionRates returns or throws in the end
FairSpec ==
    Spec /\ WF_vars(\E i \in DOMAIN inflight : Completes(i))

\* the third part, under FairSpec: the flag falls
LoadingFalls == ratesLoading ~> ~ratesLoading

\* the handlers that change the expenses or the base currency
Changes == {"submitAdded", "removeExpense", "removeParticipant", "setBaseCurrency"}

\* no request is issued, and the error is not cleared, without such a change
NoAutomaticRetry ==
    [][/\ Len(inflight') > Len(inflight) => lastAction' \in Changes
       /\ (ratesError /\ ~ratesError') => lastAction' \in Changes]_vars

\* C26: after a failed request the error state stays and no request is issued
\* until the expenses or the base currency change; a request issued by such
\* a change that succeeds leaves no error and an available table.
C26_NoRetryUntilChange ==
    [][/\ Len(inflight') > Len(inflight) => lastAction' \in Changes
       /\ (ratesError /\ ~ratesError') => lastAction' \in Changes
       /\ lastAction' = "ratesResolved" =>
            \A i \in DOMAIN inflight, rates \in RateAnswers :
                (inflight[i].afterFailure /\ RatesResolved(i, rates)) =>
                    (~ratesError' /\ ~conversionRates'.isNull)]_vars

\* the last part when the request issued after the failure is the only one
\* pending from its issue to its success
RetryAloneClearsError ==
    [][lastAction' = "ratesResolved" =>
          \A rates \in RateAnswers :
              (Len(inflight) = 1 /\ inflight[1].afterFailure /\ ~inflight[1].superseded
                 /\ ~ratesError /\ RatesResolved(1, rates)) =>
                  (~ratesError' /\ ~conversionRates'.isNull)]_vars

\* the positions of the creditors and of the debtors in the Balance list
CreditorIndices == {i \in DOMAIN settleBalances : settleBalances[i].amount > EPS}

DebtorIndices == {i \in DOMAIN settleBalances : settleBalances[i].amount < -EPS}

\* the r-th index of the index set K
IndexAt(K, r) == CHOOSE i \in K : Rank(K, i) = r

\* every (debtor, creditor) pair with its payment debtor.amount *
\* creditor.amount / totalCredit: debtors in list order, and for each debtor
\* the creditors in list order
AllPayments ==
    LET m == Cardinality(CreditorIndices) IN
    [k \in 1..(Cardinality(DebtorIndices) * m) |->
        LET debtor == settleBalances[IndexAt(DebtorIndices, ((k - 1) \div m) + 1)]
            creditor == settleBalances[IndexAt(CreditorIndices, ((k - 1) % m) + 1)]
        IN [from |-> debtor.participant.name, to |-> creditor.participant.name,
            amount |-> [num |-> Abs(debtor.amount) * creditor.amount,
                        den |-> TotalCredit]]]

\* C27: the detailed policy returns nothing without a creditor, without a
\* debtor or with a total credit below the tolerance; otherwise exactly the
\* payments above the tolerance, debtor by debtor and creditor by creditor,
\* so no more than |debtors| * |creditors| of them.
C27_DetailedResult ==
    detailed.computed =>
        IF CreditorIndices = {} \/ DebtorIndices = {} \/ TotalCredit < EPS
        THEN detailed.transactions = <<>>
        ELSE /\ IsRestriction(detailed.transactions, AllPayments,
                              {k \in DOMAIN AllPayments :
                                  AllPayments[k].amount.num > EPS * AllPayments[k].amount.den})
             /\ Len(detailed.transactions)
                  <= Cardinality(DebtorIndices) * Cardinality(CreditorIndices)

\* two debtors and two creditors with a payment that is dropped and three
\* that are emitted
C27_Witness ==
    /\ detailed.computed
    /\ Cardinality(CreditorIndices) = 2
    /\ Cardinality(DebtorIndices) = 2
    /\ Len(detailed.transactions) = 3

\* the largest credit and the largest and the smallest debt of the Balance list
LargestCredit ==
    CHOOSE x \in {settleBalances[i].amount : i \in CreditorIndices} :
        \A i \in CreditorIndices : settleBalances[i].amount <= x

LargestDebt ==
    CHOOSE x \in {-settleBalances[i].amount : i \in DebtorIndices} :
        \A i \in DebtorIndices : -settleBalances[i].amount <= x

SmallestDebt ==
    CHOOSE x \in {-settleBalances[i].amount : i \in DebtorIndices} :
        \A i \in DebtorIndices : -settleBalances[i].amount >= x

\* the participants named name owe debt / are owed credit
Owes(name, debt) ==
    \E i \in DebtorIndices :
        settleBalances[i].participant.name = name /\ -settleBalances[i].amount = debt

IsOwed(name, credit) ==
    \E i \in CreditorIndices :
        settleBalances[i].participant.name = name /\ settleBalances[i].amount = credit

\* C28 as stated: the first transaction of the simplified policy is paid by
\* the debtor that owes the most to the creditor that is owed the most.
C28_LargestDebtorFirst ==
    (pc \in {"loop", "done"} /\ simplified.transactions # <<>>) =>
        /\ Owes(simplified.transactions[1].from, LargestDebt)
        /\ IsOwed(simplified.transactions[1].to, LargestCredit)

\* C28: the creditors are processed from the largest credit to the smallest
\* and the debtors in the order of the Balance list, from the smallest debt to
\* the largest; the first transaction is paid by the debtor that owes the
\* least to the creditor that is owed the most.
C28_ListOrder ==
    pc \in {"loop", "done"} =>
        /\ \A k \in 1..(Len(simplified.creditors) - 1) :
             settleBalances[IndexAt(CreditorIndices, k)].amount
               >= settleBalances[IndexAt(CreditorIndices, k + 1)].amount
        /\ \A k \in DOMAIN simplified.creditors :
             simplified.creditors[k].participant
               = settleBalances[IndexAt(CreditorIndices, k)].participant
        /\ \A k \in 1..(Len(simplified.debtors) - 1) :
             -settleBalances[IndexAt(DebtorIndices, k)].amount
               <= -settleBalances[IndexAt(DebtorIndices, k + 1)].amount
        /\ \A k \in DOMAIN simplified.debtors :
             simplified.debtors[k].participant
               = settleBalances[IndexAt(DebtorIndices, k)].participant
        /\ simplified.transactions # <<>> =>
             /\ Owes(simplified.transactions[1].from, SmallestDebt)
             /\ IsOwed(simplified.transactions[1].to, LargestCredit)

\* two debtors with different debts and a first transaction
C28_Witness ==
    /\ pc = "done"
    /\ Cardinality(DebtorIndices) = 2
    /\ Cardinality(CreditorIndices) = 2
    /\ SmallestDebt < LargestDebt
    /\ Len(simplified.transactions) >= 2

\* C29: the display and the planner use one tolerance: a participant shown
\* as "Gets back" or "Owes" is a creditor or a debtor of the settlement
\* policies, and a participant shown as "Is settled" is neither.
C29_ConsistentTolerance ==
    \A i \in DOMAIN settleBalances :
        LET b == settleBalances[i] IN
        /\ BalanceLabel(b.amount) = "Gets back"
             <=> \E k \in DOMAIN Creditors(settleBalances) :
                    Creditors(settleBalances)[k].participant = b.participant
        /\ BalanceLabel(b.amount) = "Owes"
             <=> \E k \in DOMAIN Debtors(settleBalances) :
                    Debtors(settleBalances)[k].participant = b.participant

\* the same for the balances that are not exactly the tolerance
ConsistentOffTheBoundary ==
    (\A i \in DOMAIN settleBalances : Abs(settleBalances[i].amount) # EPS)
        => C29_ConsistentTolerance

\* the names of the creditors and of the debtors of the Balance list
CreditorNames == {settleBalances[i].participant.name : i \in CreditorIndices}

DebtorNames == {settleBalances[i].participant.name : i \in DebtorIndices}

\* every transaction of txs goes from a debtor to a creditor, and nobody both
\* pays and receives
FromDebtorsToCreditors(txs) ==
    /\ \A k \in DOMAIN txs :
         /\ txs[k].from \in DebtorNames
         /\ txs[k].to \in CreditorNames
         /\ txs[k].from # txs[k].to
    /\ {txs[k].from : k \in DOMAIN txs} \cap {txs[k].to : k \in DOMAIN txs} = {}

\* C30: every transaction of either policy has an amount above the
\* tolerance, is paid by a participant whose balance is below -epsilon and
\* received by another one whose balance is above epsilon; nobody is payer
\* and receiver in the same list.
C30_TransactionsWellFormed ==
    /\ pc \in {"loop", "done"} =>
         /\ FromDebtorsToCreditors(simplified.transactions)
         /\ \A k \in DOMAIN simplified.transactions :
              simplified.transactions[k].amount > EPS
    /\ detailed.computed =>
         /\ FromDebtorsToCreditors(detailed.transactions)
         /\ \A k \in DOMAIN detailed.transactions :
              detailed.transactions[k].amount.num
                > EPS * detailed.transactions[k].amount.den

\* both lists computed, with several transactions each
C30_Witness ==
    /\ pc = "done"
    /\ detailed.computed
    /\ Len(simplified.transactions) >= 2
    /\ Len(detailed.transactions) >= 3
====
